---- MODULE Spec2Model ----
(***************************************************************************)
(* The smart search pipeline of the rental storefront:                     *)
(*   rental/services.py  SmartSearchService (search_with_chatgpt,          *)
(*                       fallback_search, smart_search)                    *)
(*   rental/views.py     product_list (the search orchestrator)            *)
(*                                                                         *)
(* Text is a sequence of one-character strings.  A product is its id; its  *)
(* columns are given by ProductRow.  One request runs at a time; between   *)
(* its store accesses products may be deleted and a store access may fail. *)
(***************************************************************************)
EXTENDS Integers, Sequences, FiniteSets, TLC

\* ------------------------------------------------------------------ bounds
\* Products 1..MaxProducts exist at start; the id MaxProducts+1 never exists.
MaxProducts == 2
\* Longest relevant_products list the LLM answers with.
MaxRespLen == 3
\* Longest query of the exhaustive literal-matcher inputs.
MaxQueryLen == 3

\* ------------------------------------------------------------------- text
LowerChar(c) ==
    CASE c = "A" -> "a"
      [] c = "B" -> "b"
      [] c = "C" -> "c"
      [] OTHER -> c

\* str.lower()
lower(s) == [i \in 1..Len(s) |-> LowerChar(s[i])]

IsSpace(c) == c \in {" ", "\t"}

RECURSIVE split_from(_, _, _)
split_from(s, i, cur) ==
    IF i > Len(s)
    THEN IF cur = <<>> THEN <<>> ELSE <<cur>>
    ELSE IF IsSpace(s[i])
         THEN IF cur = <<>>
              THEN split_from(s, i + 1, <<>>)
              ELSE <<cur>> \o split_from(s, i + 1, <<>>)
         ELSE split_from(s, i + 1, Append(cur, s[i]))

\* str.split() without arguments: the maximal runs of non-whitespace.
split(s) == split_from(s, 1, <<>>)

RECURSIVE lstrip(_)
lstrip(s) == IF s # <<>> /\ IsSpace(Head(s)) THEN lstrip(Tail(s)) ELSE s

RECURSIVE rstrip(_)
rstrip(s) ==
    IF s # <<>> /\ IsSpace(s[Len(s)]) THEN rstrip(SubSeq(s, 1, Len(s) - 1)) ELSE s

\* str.strip()
strip(s) == rstrip(lstrip(s))

\* needle occurs in hay as a contiguous run
Contains(hay, needle) ==
    \E k \in 0..(Len(hay) - Len(needle)) :
        \A m \in 1..Len(needle) : hay[k + m] = needle[m]

\* A nullable text column.
Null == [null |-> TRUE, s |-> <<>>]
Text(s) == [null |-> FALSE, s |-> s]

\* Django's field__icontains=term: NULL never matches; case is ignored.
icontains(field, term) ==
    /\ ~field.null
    /\ Contains(lower(field.s), lower(term))

\* ---------------------------------------------------------------- catalog
ProductTemplates ==
    << [name |-> Text(<<"A", "b", "b", "A">>),
        description |-> Null,
        article |-> Text(<<"a", "b">>)],
       [name |-> Text(<<"b", "A">>),
        description |-> Text(<<"a", " ", "C", "c", "C">>),
        article |-> Text(<<"a", "b", "c">>)],
       [name |-> Text(<<"c", "a", "b">>),
        description |-> Text(<<>>),
        article |-> Text(<<"c", "c", "c">>)] >>

\* The row of product id in the Product table.
ProductRow(id) == ProductTemplates[((id - 1) % Len(ProductTemplates)) + 1]

ProductIds == 1..MaxProducts
\* What an LLM answer may name: every product id and one id that never existed.
AnswerIds == 1..(MaxProducts + 1)

SeqsUpTo(S, n) == UNION {[1..k -> S] : k \in 0..n}

RECURSIVE SetToSortedSeq(_)
SetToSortedSeq(S) ==
    IF S = {} THEN <<>>
    ELSE LET m == CHOOSE x \in S : \A y \in S : x <= y
         IN <<m>> \o SetToSortedSeq(S \ {m})

\* Product.objects.all(): the rows of the store, in primary-key order.
Product_objects_all(db) == SetToSortedSeq(db)

Range(s) == {s[i] : i \in 1..Len(s)}

\* --------------------------------------------------------- literal matcher
\* Mutant: terms of two characters are kept.
TermKept_two(term) == Len(term) >= 2

\* services.py:154  "if len(term) > 2"
TermKept(term) == Len(term) > 2

\* services.py:151-159  q_objects: the kept terms, each one an OR over
\* name / description / article; Q() stays empty when no term is kept.
RECURSIVE build_q_objects(_)
build_q_objects(terms) ==
    IF terms = <<>> THEN <<>>
    ELSE (IF TermKept(Head(terms)) THEN <<Head(terms)>> ELSE <<>>)
         \o build_q_objects(Tail(terms))

\* The OR of the term predicates, evaluated on one row.
QMatches(q_objects, row) ==
    \E i \in 1..Len(q_objects) :
        \/ icontains(row.name, q_objects[i])
        \/ icontains(row.description, q_objects[i])
        \/ icontains(row.article, q_objects[i])

\* Mutant: without the test of line 161 the empty Q() filters nothing out.
fallback_search_unguarded(q, db) ==
    LET q_objects == build_q_objects(split(lower(q)))
    IN SelectSeq(Product_objects_all(db),
                 LAMBDA id : q_objects = <<>> \/ QMatches(q_objects, ProductRow(id)))

\* services.py:146-163
fallback_search(q, db) ==
    LET terms == split(lower(q))
        q_objects == build_q_objects(terms)
    IN IF q_objects # <<>>
       THEN SelectSeq(Product_objects_all(db),
                      LAMBDA id : QMatches(q_objects, ProductRow(id)))
       ELSE <<>>

\* ------------------------------------------------------------ the service
\* settings.OPENAI_API_KEY: unset, or a text
KeyUnset == [set |-> FALSE, s |-> <<>>]
KeyText(s) == [set |-> TRUE, s |-> s]
ApiKeys == {KeyUnset, KeyText(<<>>), KeyText(<<" ">>), KeyText(<<"k">>)}

\* services.py:27-30  "if api_key and api_key.strip()"
KeyUsable(api_key) == api_key.set /\ api_key.s # <<>> /\ strip(api_key.s) # <<>>

\* services.py:22-35  SmartSearchService.__init__: the two flags
init_api_available(lib) == lib
init_api_configured(lib, api_key) == lib /\ KeyUsable(api_key)

\* views.py:785  bool(getattr(settings, 'OPENAI_API_KEY', None))
status_configured(api_key) == api_key.set /\ api_key.s # <<>>

\* Mutant: the probe reports the flag of the service alone.
status_available_service_only(key_configured, avail) == avail

\* views.py:788  api_key_configured and smart_search_service.api_available
status_available(key_configured, avail) == key_configured /\ avail

\* What the endpoint call of services.py:108-122 can end in, and what the
\* text parses to (services.py:126-127).
\*   timeout      the request raises (timeout, network, API error)
\*   no_text      the answer has no choices / no message content
\*   not_json     json.loads raises JSONDecodeError
\*   json_scalar  valid JSON that is no object: result.get raises
\*   obj_missing  an object without the key relevant_products
\*   obj_null     relevant_products is null or a number: not iterable
\*   obj_nested   relevant_products holds lists: unhashable in the set test
\*   obj_strings  relevant_products holds the ids as strings
\*   obj_list     relevant_products is a list of integers
NoResponse == [kind |-> "none", ids |-> <<>>]
FailureKinds == {"timeout", "no_text", "not_json", "json_scalar"}
OddObjectKinds == {"obj_missing", "obj_null", "obj_nested", "obj_strings"}
Responses ==
    {[kind |-> k, ids |-> <<>>] : k \in FailureKinds \cup OddObjectKinds}
    \cup {[kind |-> "obj_list", ids |-> l] : l \in SeqsUpTo(AnswerIds, MaxRespLen)}

\* services.py:37-55
get_all_products_for_context(db) == Product_objects_all(db)

\* Mutant: the empty snapshot is not noticed.
NoProductsInContext_never(ctx) == FALSE

\* services.py:103  "if not products"
NoProductsInContext(ctx) == ctx = <<>>

\* services.py:133-134  no valid id: "return self.fallback_search(query)"
on_no_valid_ids(q, db) == fallback_search(q, db)

\* services.py:138-140  except json.JSONDecodeError
on_json_error(q, db) == fallback_search(q, db)

\* Mutant: the handler gives up with an empty result.
on_exception_empty(q, db) == <<>>

\* services.py:142-144  except Exception
on_exception(q, db) == fallback_search(q, db)

\* Mutant: the two tests joined by "and".
UseFallbackOnly_and(avail, conf) == ~avail /\ ~conf

\* services.py:97  "if not self.api_available or not self.api_configured"
UseFallbackOnly(avail, conf) == ~avail \/ ~conf

\* Mutant: a request that raised is sent again.
AfterResponse_retry(r) ==
    CASE r.kind = "timeout" -> "swc_llm"
      [] r.kind = "no_text" -> "swc_fb_144"
      [] r.kind = "not_json" -> "swc_fb_140"
      [] r.kind = "json_scalar" -> "swc_fb_144"
      [] OTHER -> "swc_validate"

\* services.py:108-127 and the except clauses at 138 and 142: where control
\* goes when the endpoint call and json.loads end with response r.
AfterResponse(r) ==
    CASE r.kind \in {"timeout", "no_text"} -> "swc_fb_144"
      [] r.kind = "not_json" -> "swc_fb_140"
      [] r.kind = "json_scalar" -> "swc_fb_144"
      [] OTHER -> "swc_validate"

\* services.py:131 raises TypeError for these answers
ValidationRaises(r) == r.kind \in {"obj_null", "obj_nested"}

\* services.py:127-131  valid_ids = [pid for pid in product_ids if pid in existing_ids]
valid_ids(r, existing_ids) ==
    IF r.kind = "obj_list"
    THEN SelectSeq(r.ids, LAMBDA pid : pid \in existing_ids)
    ELSE <<>>

\* Mutant: the empty list is returned like any other.
AfterValidation_no_check(ids) == "return_136"

\* services.py:133  "if not valid_ids" falls back, otherwise line 136 returns
AfterValidation(ids) == IF ids = <<>> THEN "swc_fb_134" ELSE "return_136"

\* services.py:177-180
\*   product_dict = {p.id: p for p in Product.objects.filter(id__in=product_ids)}
\*   ordered = [product_dict[pid] for pid in product_ids if pid in product_dict]
\* Mutant: the lookup without its guard.
InProductDict_unguarded(pid, product_dict) == TRUE

\* services.py:180  "if pid in product_dict"
InProductDict(pid, product_dict) == pid \in product_dict

\* Mutant: the rows in the order the id__in fetch returns them.
refetch_ordered_store_order(ids, db) == Product_objects_all(db \cap Range(ids))

refetch_ordered(ids, db) ==
    LET product_dict == db \cap Range(ids)
    IN SelectSeq(ids, LAMBDA pid : InProductDict(pid, product_dict))

\* services.py:180  product_dict[pid] raises KeyError when it is reached
\* with an id that the re-fetch did not return
RefetchRaises(ids, db) ==
    LET product_dict == db \cap Range(ids)
    IN \E i \in 1..Len(ids) :
          InProductDict(ids[i], product_dict) /\ ids[i] \notin product_dict

\* services.py:17-181  the methods class SmartSearchService defines
SmartSearchServiceMethods ==
    {"__init__", "get_all_products_for_context", "create_enhanced_search_prompt",
     "search_with_chatgpt", "fallback_search", "smart_search"}

\* ------------------------------------------------------------------- tags
\* The Tag table: tag 1 is a root, 2 its child, 3 the child of 2, 4 a root.
TagParent == <<0, 1, 2, 0>>
TagIds == 1..Len(TagParent)

\* Tag.get_children()
get_children(t) == {c \in TagIds : TagParent[c] = t}

\* Tag.get_descendants(): the children and, transitively, theirs
RECURSIVE get_descendants(_)
get_descendants(t) ==
    get_children(t) \cup UNION {get_descendants(c) : c \in get_children(t)}

\* The rows of the product-tag relation, by product.
ProductTagTemplates == << {3}, {1, 2}, {4} >>

\* views.py:96  product.tags.all(); a deleted product has no rows left
product_tags(id, db) ==
    IF id \in db
    THEN ProductTagTemplates[((id - 1) % Len(ProductTagTemplates)) + 1]
    ELSE {}

\* request.GET.get('tag', ''): absent, the text of an integer, another text
TagParams == {"", "1", "2", "3", "4", "9", "x"}
IsIntegerText(t) == t \in {"1", "2", "3", "4", "9"}
TagParamInt(t) ==
    CASE t = "1" -> 1 [] t = "2" -> 2 [] t = "3" -> 3 [] t = "4" -> 4 [] OTHER -> 9

\* views.py:88  Tag.objects.get(id=tag_filter)
TagGetOutcome(t) ==
    IF ~IsIntegerText(t) THEN "ValueError"
    ELSE IF TagParamInt(t) \in TagIds THEN "found" ELSE "DoesNotExist"

\* Mutant: the descendants are left out.
all_tags_selected_only(selected) == {selected}

\* views.py:89-90  all_tags = [selected_tag] + descendant_tags
all_tags(selected) == {selected} \cup get_descendants(selected)

\* views.py:93-98  the in-memory filter of a list
filter_list_by_tags(list, tags, db) ==
    SelectSeq(list, LAMBDA p : \E tag \in tags : tag \in product_tags(p, db))

\* filter(tags__in=all_tags): the join has one row per matching product-tag pair
RECURSIVE tags_in_rows(_, _, _)
tags_in_rows(rows, tags, db) ==
    IF rows = <<>> THEN <<>>
    ELSE [i \in 1..Cardinality(product_tags(Head(rows), db) \cap tags) |-> Head(rows)]
         \o tags_in_rows(Tail(rows), tags, db)

\* Mutant: the copies of the join stay.
distinct_not_applied(rows) == rows

\* .distinct()
RECURSIVE distinct(_)
distinct(rows) ==
    IF rows = <<>> THEN <<>>
    ELSE <<Head(rows)>> \o distinct(SelectSeq(Tail(rows), LAMBDA x : x # Head(rows)))

\* .order_by('-created_at'): the newest row has the highest id
RECURSIVE created_desc_from(_, _)
created_desc_from(rows, n) ==
    IF n = 0 THEN <<>>
    ELSE [i \in 1..Cardinality({k \in 1..Len(rows) : rows[k] = n}) |-> n]
         \o created_desc_from(rows, n - 1)

order_by_created_desc(rows) ==
    IF rows = <<>> THEN <<>>
    ELSE created_desc_from(rows, CHOOSE m \in Range(rows) : \A x \in Range(rows) : x <= m)

\* views.py:102  Product.objects.filter(tags__in=all_tags).distinct().order_by('-created_at')
tag_queryset(tags, db) ==
    order_by_created_desc(distinct(tags_in_rows(Product_objects_all(db), tags, db)))

\* Mutant: the mode of the search is forgotten.
mode_with_tag_plain(sq, st) == "tag"

\* views.py:104  'tag' if not search_query else f'{search_type}_tag'
mode_with_tag(sq, st) ==
    IF sq = <<>> THEN "tag"
    ELSE CASE st = "smart" -> "smart_tag"
           [] st = "fallback" -> "fallback_tag"
           [] OTHER -> "all_tag"

\* Mutant: lines 116-118 never run.
show_all_never(sq, tf) == FALSE

\* views.py:116  "if not search_query and not tag_filter"
show_all(sq, tf) == sq = <<>> /\ tf = ""

\* Mutant: an empty result is reported as the fallback mode.
mode_after_search_empty_is_fallback(list) ==
    IF list = <<>> THEN "fallback" ELSE "smart"

\* views.py:63-70  both branches set search_type = 'smart'
mode_after_search(list) == "smart"

\* -------------------------------------------------------------- paginator
\* views.py:121  Paginator(products, 30)
PageSize == 30

\* Paginator.num_pages with allow_empty_first_page and no orphans
num_pages(count) ==
    IF count = 0 THEN 1 ELSE (count + PageSize - 1) \div PageSize

\* Paginator.validate_number
validate_number(p, np) ==
    IF p.kind = "text" THEN "PageNotAnInteger"
    ELSE IF p.n < 1 \/ p.n > np THEN "EmptyPage" ELSE "ok"

\* Mutant: a number out of range shows the first page.
on_empty_page_first(np) == 1

\* views.py:127-128  except EmptyPage: paginator.page(paginator.num_pages)
on_empty_page(np) == np

\* views.py:123-128  the number of the page that is shown
page_shown(p, np) ==
    CASE validate_number(p, np) = "ok" -> p.n
      [] validate_number(p, np) = "PageNotAnInteger" -> 1
      [] OTHER -> on_empty_page(np)

\* Paginator.page(number).object_list
page_slice(list, number) ==
    LET bottom == (number - 1) * PageSize
        top == IF bottom + PageSize >= Len(list) THEN Len(list) ELSE bottom + PageSize
    IN SubSeq(list, bottom + 1, top)

\* -------------------------------------------------------------- the cart
\* A request parameter: missing, a text that is no integer, or an integer.
NoParam == [kind |-> "absent", n |-> 0]
TextParam == [kind |-> "text", n |-> 0]
IntParam(n) == [kind |-> "int", n |-> n]

\* int(request.POST.get(name, default)): the text of no integer raises
IntOr(p, default) == IF p.kind = "absent" THEN default ELSE p.n

\* Product.daily_price
daily_price(id) == 10 * id

\* cart[str(product_id)] = entry
CartPut(cart, id, entry) ==
    [k \in DOMAIN cart \cup {id} |-> IF k = id THEN entry ELSE cart[k]]

\* cart.pop(str(product_id), None)
CartPop(cart, id) == [k \in DOMAIN cart \ {id} |-> cart[k]]

\* views.py:222-239  the quantity the cart already holds
current_quantity(cart, id) ==
    IF id \in DOMAIN cart THEN cart[id].quantity ELSE 0

\* views.py:218, 242  the two tests of the stock
add_rejected(cart, id, quantity, avail) ==
    \/ quantity > avail
    \/ current_quantity(cart, id) + quantity > avail

\* views.py:246-249  the entry add_to_cart stores
add_entry(cart, id, quantity, days) ==
    [quantity |-> current_quantity(cart, id) + quantity, days |-> days]

\* views.py:214-253  add_to_cart for a product that exists
add_to_cart(cart, id, quantity, days, avail) ==
    IF add_rejected(cart, id, quantity, avail)
    THEN [rejected |-> TRUE, cart |-> cart]
    ELSE [rejected |-> FALSE,
          cart |-> CartPut(cart, id, add_entry(cart, id, quantity, days))]

\* views.py:269-284  remove_from_cart
remove_from_cart(cart, id) ==
    IF id \in DOMAIN cart
    THEN [rejected |-> FALSE, cart |-> CartPop(cart, id)]
    ELSE [rejected |-> TRUE, cart |-> cart]

\* Mutant: the stock is not looked at.
quantity_rejected_never(new_quantity, avail) == FALSE

\* views.py:660  "if new_quantity > product.available_quantity"
quantity_rejected(new_quantity, avail) == new_quantity > avail

\* views.py:655-694  update_cart_quantity
update_cart_quantity(cart, id, new_quantity, db, avail) ==
    IF id \notin DOMAIN cart \/ id \notin db
    THEN [rejected |-> TRUE, cart |-> cart]
    ELSE IF quantity_rejected(new_quantity, avail)
    THEN [rejected |-> TRUE, cart |-> cart]
    ELSE IF new_quantity <= 0
    THEN [rejected |-> FALSE, cart |-> CartPop(cart, id)]
    ELSE [rejected |-> FALSE,
          cart |-> [cart EXCEPT ![id].quantity = new_quantity]]

\* views.py:702-713  the tests of the day count
days_rejected(dp) ==
    \/ dp.kind \in {"absent", "text"}
    \/ dp.n < 1
    \/ dp.n > 365

\* views.py:699-748  update_cart_days
update_cart_days(cart, id, dp, db) ==
    IF days_rejected(dp) \/ id \notin DOMAIN cart \/ id \notin db
    THEN [rejected |-> TRUE, cart |-> cart]
    ELSE [rejected |-> FALSE, cart |-> [cart EXCEPT ![id].days = dp.n]]

\* views.py:159-190  the items cart_view shows: the entries whose product
\* exists, here in the order of the ids
RECURSIVE shown_items(_, _, _)
shown_items(ids, cart, db) ==
    IF ids = <<>> THEN <<>>
    ELSE (IF Head(ids) \in db
          THEN << [product |-> Head(ids),
                   quantity |-> cart[Head(ids)].quantity,
                   days |-> cart[Head(ids)].days,
                   total |-> daily_price(Head(ids)) * cart[Head(ids)].quantity
                                 * cart[Head(ids)].days] >>
          ELSE <<>>)
         \o shown_items(Tail(ids), cart, db)

\* views.py:187  total += item_total
RECURSIVE sum_totals(_)
sum_totals(items) ==
    IF items = <<>> THEN 0 ELSE Head(items).total + sum_totals(Tail(items))

\* Mutant: the session cart is left as it is.
valid_cart_keeps_all(cart, db) == cart

\* views.py:193-203  the cart without the entries whose product is gone
valid_cart(cart, db) == [k \in DOMAIN cart \cap db |-> cart[k]]

\* views.py:314-327, 391-420  the lines of the checkout page and of the
\* order total: the quantity of the cart, the days of the order
RECURSIVE checkout_lines(_, _, _, _)
checkout_lines(ids, cart, db, rental_days) ==
    IF ids = <<>> THEN <<>>
    ELSE (IF Head(ids) \in db
          THEN << [product |-> Head(ids),
                   quantity |-> cart[Head(ids)].quantity,
                   days |-> rental_days,
                   total |-> daily_price(Head(ids)) * cart[Head(ids)].quantity
                                 * rental_days] >>
          ELSE <<>>)
         \o checkout_lines(Tail(ids), cart, db, rental_days)

\* views.py:362-364  what Product.save() does with the decremented stock: the
\* column either takes any integer or refuses a negative one
save_refused(strict, quantity_left) == strict /\ quantity_left < 0

\* views.py:345-367  the order items are created one by one; a confirmed
\* order takes each quantity off the stock as it goes
RECURSIVE create_items(_, _, _, _, _, _, _)
create_items(ids, cart, db, stk, rental_days, confirmed, strict) ==
    IF ids = <<>>
    THEN [stock |-> stk, items |-> <<>>, raised |-> "none"]
    ELSE IF Head(ids) \notin db
    THEN create_items(Tail(ids), cart, db, stk, rental_days, confirmed, strict)
    ELSE LET id == Head(ids)
             item == [product |-> id, quantity |-> cart[id].quantity,
                      price |-> daily_price(id) * rental_days]
             left == stk[id] - cart[id].quantity
         IN IF confirmed /\ save_refused(strict, left)
            THEN [stock |-> stk, items |-> <<item>>, raised |-> "IntegrityError"]
            ELSE LET rest == create_items(Tail(ids), cart, db,
                                 IF confirmed THEN [stk EXCEPT ![id] = left]
                                 ELSE stk,
                                 rental_days, confirmed, strict)
                 IN [stock |-> rest.stock, items |-> <<item>> \o rest.items,
                     raised |-> rest.raised]

\* ------------------------------------------------------------------ state
VARIABLES
    OPENAI_AVAILABLE,  \* services.py:9-13   the openai import succeeded
    OPENAI_API_KEY,    \* settings.OPENAI_API_KEY
    api_available,     \* services.py:23
    api_configured,    \* services.py:24,30
    catalog,           \* the ids of the rows of the Product table
    pc,                \* where the running request is
    entry,             \* the operation the caller invoked
    search_query,      \* views.py:37
    query,             \* the query argument of the service methods
    context,           \* services.py:102  products: <<>> or <<the snapshot>>
    response,          \* services.py:108-127  what the endpoint call ended in
    llm_calls,         \* endpoint requests issued by the running request
    product_ids,       \* services.py:172  what search_with_chatgpt returned
    via,               \* the return statement search_with_chatgpt left by
    ordered,           \* services.py:180  what smart_search returned
    raised,            \* the exception that is propagating, or "none"
    e,                 \* views.py:72  the exception product_list caught
    products,          \* views.py:54-117
    search_type,       \* views.py:55
    warning,           \* views.py:83  messages.warning was called
    tag_filter,        \* views.py:38
    page_number,       \* views.py:39
    selected_tag,      \* views.py:52,88  the id of the Tag row, 0 for None
    products_page,     \* views.py:124-128
    first,             \* a caller's record of its first fallback_search call
    status,            \* views.py:787-790  the JSON of smart_search_status
    other,             \* the locals of the request that is not running now
    carts,             \* request.session['cart'] of each session
    stock,             \* Product.available_quantity of each product
    cart_resp          \* what the last cart or checkout request answered

settings == <<OPENAI_AVAILABLE, OPENAI_API_KEY>>
flags == <<api_available, api_configured>>
locals == <<entry, search_query, query, context, response, llm_calls,
            product_ids, via, ordered, raised, e, products, search_type, warning>>
\* the parameters and locals of product_list, of the repeated call and of the probe
extras == <<tag_filter, page_number, selected_tag, products_page, first, status>>
\* the session carts, the stock and the answer of the cart views
shop == <<carts, stock, cart_resp>>
vars == <<settings, flags, catalog, pc, locals, extras, other, shop>>

\* Queries of the pipeline: empty, blank, short terms only, the spec's
\* "a bb ccc", single terms in either case, padded, two long terms, no match.
SampleQueries ==
    { <<>>,
      <<" ">>,
      <<"a", "b">>,
      <<"a", " ", "b", "b", " ", "c", "c", "c">>,
      <<"c", "c", "c">>,
      <<" ", "C", "C", "C", "\t">>,
      <<"A", "b", "b", " ", " ", "a", "b", "c">>,
      <<"b", "b", "b">> }

QueryAlphabet == {"a", "b", "C", " "}
\* Queries of direct calls of fallback_search: every text up to MaxQueryLen.
LiteralQueries == SeqsUpTo(QueryAlphabet, MaxQueryLen) \cup SampleQueries

NoProducts == [kind |-> "none", ids |-> <<>>]

\* request.GET.get('page', 1): absent, a text that is no integer, an integer text
PageAbsent == [kind |-> "absent", n |-> 1]
NoPage == [number |-> 0, object_list |-> <<>>]
NoFirst == [called |-> FALSE, ids |-> <<>>, db |-> {}]
NoStatus == [reported |-> FALSE, available |-> FALSE, configured |-> FALSE]

FreshExtras ==
    /\ tag_filter = ""
    /\ page_number = PageAbsent
    /\ selected_tag = 0
    /\ products_page = NoPage
    /\ first = NoFirst
    /\ status = NoStatus

\* A request that has not started.
IdleRequest ==
    [pc |-> "idle", entry |-> "none", search_query |-> <<>>, query |-> <<>>,
     context |-> <<>>, response |-> NoResponse, llm_calls |-> 0,
     product_ids |-> <<>>, via |-> "none", ordered |-> <<>>, raised |-> "none",
     e |-> "none", products |-> NoProducts, search_type |-> "none",
     warning |-> FALSE, tag_filter |-> "", page_number |-> PageAbsent,
     selected_tag |-> 0, products_page |-> NoPage, first |-> NoFirst,
     status |-> NoStatus]

FreshLocals ==
    /\ entry = "none"
    /\ search_query = <<>>
    /\ query = <<>>
    /\ context = <<>>
    /\ response = NoResponse
    /\ llm_calls = 0
    /\ product_ids = <<>>
    /\ via = "none"
    /\ ordered = <<>>
    /\ raised = "none"
    /\ e = "none"
    /\ products = NoProducts
    /\ search_type = "none"
    /\ warning = FALSE

\* Browser sessions, each with its cart; every product starts with MaxStock
\* pieces in stock.
MaxSessions == 2
MaxStock == 1
Sessions == 1..MaxSessions

\* views.py:155  request.session.get('cart', {})
EmptyCart == <<>>

NoCartResponse ==
    [op |-> "none", session |-> 0, rejected |-> FALSE, raised |-> "none",
     items |-> <<>>, total |-> 0, order_items |-> <<>>, order_status |-> "none"]

FreshShop ==
    /\ carts = [s \in Sessions |-> EmptyCart]
    /\ stock = [id \in ProductIds |-> MaxStock]
    /\ cart_resp = NoCartResponse

Init ==
    /\ OPENAI_AVAILABLE \in BOOLEAN
    /\ OPENAI_API_KEY \in ApiKeys
    /\ api_available = init_api_available(OPENAI_AVAILABLE)
    /\ api_configured = init_api_configured(OPENAI_AVAILABLE, OPENAI_API_KEY)
    /\ catalog = ProductIds
    /\ pc = "idle"
    /\ FreshLocals
    /\ FreshExtras
    /\ other = IdleRequest
    /\ FreshShop

\* ---------------------------------------------------------------- control
\* search_with_chatgpt returns ids by the return statement at line `site`.
SwcReturns(ids, site) ==
    /\ product_ids' = ids
    /\ via' = site
    /\ pc' = IF entry = "search_with_chatgpt" THEN "done" ELSE "ss_after"

\* An exception leaves the service: smart_search has no handler, product_list
\* has the one of views.py:72.
Raises(exc) ==
    /\ raised' = exc
    /\ pc' = IF entry = "product_list" THEN "pl_except" ELSE "done"

\* smart_search returns list.
SsReturns(list) ==
    /\ ordered' = list
    /\ pc' = IF entry = "product_list" THEN "pl_search_ok" ELSE "done"

Reverse(s) == [i \in 1..Len(s) |-> s[Len(s) + 1 - i]]

\* ---------------------------------------------------------------- actions
\* A caller invokes a method of smart_search_service directly.
Call(en, q) ==
    /\ pc = "idle"
    /\ entry' = en
    /\ query' = q
    /\ pc' = CASE en = "smart_search" -> "ss_entry"
               [] en = "search_with_chatgpt" -> "swc_entry"
               [] OTHER -> "fb_entry"
    /\ UNCHANGED <<extras, other>>
    /\ UNCHANGED shop
    /\ UNCHANGED <<settings, flags, catalog, search_query, context, response,
                   llm_calls, product_ids, via, ordered, raised, e, products,
                   search_type, warning>>

\* views.py:35-61  product_list up to the call of smart_search
ProductListBegin(q, t, p) ==
    /\ pc = "idle"
    /\ entry' = "product_list"
    /\ search_query' = strip(q)
    /\ tag_filter' = t
    /\ page_number' = p
    /\ products' = [kind |-> "qs_all", ids |-> <<>>]
    /\ search_type' = "all"
    /\ IF strip(q) # <<>>
       THEN query' = strip(q) /\ pc' = "ss_entry"
       ELSE query' = query /\ pc' = "pl_rest"
    /\ UNCHANGED <<selected_tag, products_page, first, status, other>>
    /\ UNCHANGED shop
    /\ UNCHANGED <<settings, flags, catalog, context, response, llm_calls,
                   product_ids, via, ordered, raised, e, warning>>

\* A caller that calls fallback_search twice with the same query.
FallbackTwiceBegin(q) ==
    /\ pc = "idle"
    /\ entry' = "fallback_twice"
    /\ query' = q
    /\ pc' = "fb_first"
    /\ UNCHANGED <<extras, other>>
    /\ UNCHANGED shop
    /\ UNCHANGED <<settings, flags, catalog, search_query, context, response,
                   llm_calls, product_ids, via, ordered, raised, e, products,
                   search_type, warning>>

\* services.py:146-163  the first of the two calls; the caller keeps its result
FallbackSearchFirst ==
    /\ pc = "fb_first"
    /\ \/ /\ first' = [called |-> TRUE,
                       ids |-> fallback_search(query, catalog),
                       db |-> catalog]
          /\ pc' = "fb_entry"
          /\ UNCHANGED raised
       \/ /\ raised' = "DatabaseError"
          /\ pc' = "done"
          /\ UNCHANGED first
    /\ UNCHANGED <<tag_filter, page_number, selected_tag, products_page, status,
                   other>>
    /\ UNCHANGED shop
    /\ UNCHANGED <<settings, flags, catalog, entry, search_query, query, context,
                   response, llm_calls, product_ids, via, ordered, e, products,
                   search_type, warning>>

\* Mutant: the call clears a flag of the service.
FallbackSearchCall_marks_flag ==
    /\ pc = "fb_entry"
    /\ product_ids' = fallback_search(query, catalog)
    /\ api_configured' = FALSE
    /\ pc' = "done"
    /\ UNCHANGED <<extras, other>>
    /\ UNCHANGED shop
    /\ UNCHANGED <<settings, api_available, catalog, entry, search_query, query,
                   context, response, llm_calls, via, ordered, raised, e,
                   products, search_type, warning>>

\* services.py:146-163  fallback_search called by the caller itself
FallbackSearchCall ==
    /\ pc = "fb_entry"
    /\ \/ /\ product_ids' = fallback_search(query, catalog)
          /\ pc' = "done"
          /\ UNCHANGED raised
       \/ /\ raised' = "DatabaseError"
          /\ pc' = "done"
          /\ UNCHANGED product_ids
    /\ UNCHANGED <<extras, other>>
    /\ UNCHANGED shop
    /\ UNCHANGED <<settings, flags, catalog, entry, search_query, query, context,
                   response, llm_calls, via, ordered, e, products, search_type,
                   warning>>

\* services.py:169-172
SmartSearchEntry ==
    /\ pc = "ss_entry"
    /\ IF query = <<>> \/ strip(query) = <<>>
       THEN SsReturns(<<>>)
       ELSE pc' = "swc_entry" /\ UNCHANGED ordered
    /\ UNCHANGED <<extras, other>>
    /\ UNCHANGED shop
    /\ UNCHANGED <<settings, flags, catalog, entry, search_query, query, context,
                   response, llm_calls, product_ids, via, raised, e, products,
                   search_type, warning>>

\* Mutant: the query is kept where the other request overwrites it.
SwcPrecheck_shared_query ==
    /\ pc = "swc_entry"
    /\ IF UseFallbackOnly(api_available, api_configured)
       THEN /\ SwcReturns(fallback_search(IF other.pc = "idle" THEN query
                                          ELSE other.query, catalog), "return_99")
            /\ UNCHANGED raised
       ELSE pc' = "swc_snapshot" /\ UNCHANGED <<product_ids, via, raised>>
    /\ UNCHANGED <<extras, other>>
    /\ UNCHANGED shop
    /\ UNCHANGED <<settings, flags, catalog, entry, search_query, query, context,
                   response, llm_calls, ordered, e, products, search_type, warning>>

\* services.py:97-99  the availability check; its fallback runs outside the try
SwcPrecheck ==
    /\ pc = "swc_entry"
    /\ IF UseFallbackOnly(api_available, api_configured)
       THEN \/ SwcReturns(fallback_search(query, catalog), "return_99")
               /\ UNCHANGED raised
            \/ Raises("DatabaseError") /\ via' = "return_99"
               /\ UNCHANGED product_ids
       ELSE pc' = "swc_snapshot" /\ UNCHANGED <<product_ids, via, raised>>
    /\ UNCHANGED <<extras, other>>
    /\ UNCHANGED shop
    /\ UNCHANGED <<settings, flags, catalog, entry, search_query, query, context,
                   response, llm_calls, ordered, e, products, search_type, warning>>

\* services.py:102-106  the context snapshot; an empty catalog returns []
SwcSnapshot ==
    /\ pc = "swc_snapshot"
    /\ \/ /\ context' = <<get_all_products_for_context(catalog)>>
          /\ IF NoProductsInContext(get_all_products_for_context(catalog))
             THEN SwcReturns(<<>>, "return_104")
             ELSE pc' = "swc_llm" /\ UNCHANGED <<product_ids, via>>
       \/ /\ pc' = "swc_fb_144"
          /\ UNCHANGED <<context, product_ids, via>>
    /\ UNCHANGED <<extras, other>>
    /\ UNCHANGED shop
    /\ UNCHANGED <<settings, flags, catalog, entry, search_query, query, response,
                   llm_calls, ordered, raised, e, products, search_type, warning>>

\* services.py:108-127  one request to the endpoint, and json.loads of its text
SwcLLMFrom(answers) ==
    /\ pc = "swc_llm"
    /\ \E r \in answers :
          /\ response' = r
          /\ pc' = AfterResponse(r)
    /\ llm_calls' = llm_calls + 1
    /\ UNCHANGED <<extras, other>>
    /\ UNCHANGED shop
    /\ UNCHANGED <<settings, flags, catalog, entry, search_query, query, context,
                   product_ids, via, ordered, raised, e, products, search_type,
                   warning>>

\* services.py:108-127  the endpoint answers anything
SwcLLM == SwcLLMFrom(Responses)

\* services.py:130-136  the existence filter
SwcValidate ==
    /\ pc = "swc_validate"
    /\ \/ /\ ~ValidationRaises(response)
          /\ IF AfterValidation(valid_ids(response, catalog)) = "return_136"
             THEN SwcReturns(valid_ids(response, catalog), "return_136")
             ELSE pc' = AfterValidation(valid_ids(response, catalog))
                  /\ UNCHANGED <<product_ids, via>>
       \/ /\ ValidationRaises(response)
          /\ pc' = "swc_fb_144"
          /\ UNCHANGED <<product_ids, via>>
       \/ /\ pc' = "swc_fb_144"
          /\ UNCHANGED <<product_ids, via>>
    /\ UNCHANGED <<extras, other>>
    /\ UNCHANGED shop
    /\ UNCHANGED <<settings, flags, catalog, entry, search_query, query, context,
                   response, llm_calls, ordered, raised, e, products, search_type,
                   warning>>

\* services.py:134, 140  a fallback inside the try: its own failure is caught
\* by "except Exception" (line 142)
SwcFallbackInTry ==
    /\ pc \in {"swc_fb_134", "swc_fb_140"}
    /\ \/ /\ pc = "swc_fb_134"
          /\ SwcReturns(on_no_valid_ids(query, catalog), "return_134")
       \/ /\ pc = "swc_fb_140"
          /\ SwcReturns(on_json_error(query, catalog), "return_140")
       \/ pc' = "swc_fb_144" /\ UNCHANGED <<product_ids, via>>
    /\ UNCHANGED <<extras, other>>
    /\ UNCHANGED shop
    /\ UNCHANGED <<settings, flags, catalog, entry, search_query, query, context,
                   response, llm_calls, ordered, raised, e, products, search_type,
                   warning>>

\* services.py:142-144  the fallback of "except Exception"
SwcFallbackExcept ==
    /\ pc = "swc_fb_144"
    /\ \/ SwcReturns(on_exception(query, catalog), "return_144")
          /\ UNCHANGED raised
       \/ Raises("DatabaseError") /\ via' = "return_144"
          /\ UNCHANGED product_ids
    /\ UNCHANGED <<extras, other>>
    /\ UNCHANGED shop
    /\ UNCHANGED <<settings, flags, catalog, entry, search_query, query, context,
                   response, llm_calls, ordered, e, products, search_type, warning>>

\* services.py:174-181  the re-fetch and the re-ordering
SmartSearchRefetch ==
    /\ pc = "ss_after"
    /\ IF product_ids = <<>>
       THEN SsReturns(<<>>) /\ UNCHANGED raised
       ELSE \/ /\ ~RefetchRaises(product_ids, catalog)
               /\ SsReturns(refetch_ordered(product_ids, catalog))
               /\ UNCHANGED raised
            \/ /\ RefetchRaises(product_ids, catalog)
               /\ Raises("KeyError")
               /\ UNCHANGED ordered
            \/ /\ Raises("DatabaseError")
               /\ UNCHANGED ordered
    /\ UNCHANGED <<extras, other>>
    /\ UNCHANGED shop
    /\ UNCHANGED <<settings, flags, catalog, entry, search_query, query, context,
                   response, llm_calls, product_ids, via, e, products,
                   search_type, warning>>

\* views.py:75-81  the orchestrator's literal search with the expanded query
orchestrator_fallback(q, expanded_query, db) ==
    Reverse(SelectSeq(Product_objects_all(db),
        LAMBDA id :
            \/ icontains(ProductRow(id).name, q)
            \/ icontains(ProductRow(id).article, q)
            \/ icontains(ProductRow(id).description, q)
            \/ icontains(ProductRow(id).name, expanded_query)
            \/ icontains(ProductRow(id).description, expanded_query)))

\* views.py:63-70  smart_search returned
ProductListSearchOk ==
    /\ pc = "pl_search_ok"
    /\ products' = [kind |-> "list", ids |-> ordered]
    /\ search_type' = mode_after_search(ordered)
    /\ pc' = "pl_rest"
    /\ UNCHANGED <<extras, other>>
    /\ UNCHANGED shop
    /\ UNCHANGED <<settings, flags, catalog, entry, search_query, query, context,
                   response, llm_calls, product_ids, via, ordered, raised, e,
                   warning>>

\* views.py:72-83  the handler of "except Exception as e".  Line 74 looks up
\* smart_search_service.expand_search_query before anything else is done; the
\* class defines no such method, so the lookup raises AttributeError.  The
\* other branch is what lines 75-83 do with a service that has the method
\* (its expanded query is any text).
ProductListExcept ==
    /\ pc = "pl_except"
    /\ e' = raised
    /\ IF "expand_search_query" \in SmartSearchServiceMethods
       THEN /\ raised' = "none"
            /\ \E expanded_query \in SampleQueries :
                  products' = [kind |-> "qs_fallback",
                               ids |-> orchestrator_fallback(search_query,
                                                             expanded_query, catalog)]
            /\ search_type' = "fallback"
            /\ warning' = TRUE
            /\ pc' = "pl_rest"
       ELSE /\ raised' = "AttributeError"
            /\ pc' = "done"
            /\ UNCHANGED <<products, search_type, warning>>
    /\ UNCHANGED <<extras, other>>
    /\ UNCHANGED shop
    /\ UNCHANGED <<settings, flags, catalog, entry, search_query, query, context,
                   response, llm_calls, product_ids, via, ordered>>

\* views.py:93-102  products once the tag selected exists
products_with_tag(prods, sq, tags, db) ==
    IF sq # <<>>
    THEN IF prods.kind = "list"
         THEN [kind |-> "list", ids |-> filter_list_by_tags(prods.ids, tags, db)]
         ELSE [kind |-> "qs_fallback_tag",
               ids |-> filter_list_by_tags(prods.ids, tags, db)]
    ELSE [kind |-> "qs_tag", ids |-> <<>>]

\* The rows a queryset yields when it is evaluated; a list is what it is.
evaluate(prods, selected, db) ==
    CASE prods.kind = "qs_all" -> Product_objects_all(db)
      [] prods.kind = "qs_all_created" -> Reverse(Product_objects_all(db))
      [] prods.kind = "qs_tag" -> tag_queryset(all_tags(selected), db)
      [] OTHER -> prods.ids

\* views.py:85-118  the tag filter and the unfiltered listing
ProductListRest ==
    /\ pc = "pl_rest"
    /\ \/ /\ tag_filter # ""
          /\ TagGetOutcome(tag_filter) = "found"
          /\ selected_tag' = TagParamInt(tag_filter)
          /\ products' = products_with_tag(products, search_query,
                                           all_tags(TagParamInt(tag_filter)), catalog)
          /\ search_type' = mode_with_tag(search_query, search_type)
          /\ pc' = "pl_paginate"
          /\ UNCHANGED raised
       \/ /\ tag_filter # ""
          /\ TagGetOutcome(tag_filter) = "ValueError"
          /\ raised' = "ValueError"
          /\ pc' = "done"
          /\ UNCHANGED <<selected_tag, products, search_type>>
       \/ /\ tag_filter # ""
          /\ raised' = "DatabaseError"
          /\ pc' = "done"
          /\ UNCHANGED <<selected_tag, products, search_type>>
       \/ /\ tag_filter = "" \/ TagGetOutcome(tag_filter) = "DoesNotExist"
          /\ IF show_all(search_query, tag_filter)
             THEN /\ products' = [kind |-> "qs_all_created", ids |-> <<>>]
                  /\ search_type' = "all"
             ELSE UNCHANGED <<products, search_type>>
          /\ pc' = "pl_paginate"
          /\ UNCHANGED <<selected_tag, raised>>
    /\ UNCHANGED <<tag_filter, page_number, products_page, first, status, other>>
    /\ UNCHANGED shop
    /\ UNCHANGED <<settings, flags, catalog, entry, search_query, query, context,
                   response, llm_calls, product_ids, via, ordered, e, warning>>

\* views.py:120-147  the paginator evaluates the sequence and cuts the page
ProductListPaginate ==
    /\ pc = "pl_paginate"
    /\ \/ /\ products' = [products EXCEPT
                              !.ids = evaluate(products, selected_tag, catalog)]
          /\ products_page' =
                LET list == evaluate(products, selected_tag, catalog)
                    number == page_shown(page_number, num_pages(Len(list)))
                IN [number |-> number, object_list |-> page_slice(list, number)]
          /\ UNCHANGED raised
       \/ /\ products.kind # "list"
          /\ raised' = "DatabaseError"
          /\ UNCHANGED <<products, products_page>>
    /\ pc' = "done"
    /\ UNCHANGED <<tag_filter, page_number, selected_tag, first, status, other>>
    /\ UNCHANGED shop
    /\ UNCHANGED <<settings, flags, catalog, entry, search_query, query, context,
                   response, llm_calls, product_ids, via, ordered, e, search_type,
                   warning>>

\* views.py:778-796  smart_search_status
SmartSearchStatus ==
    /\ pc = "idle"
    /\ entry' = "smart_search_status"
    /\ status' = [reported |-> TRUE,
                  available |-> status_available(status_configured(OPENAI_API_KEY),
                                                 api_available),
                  configured |-> status_configured(OPENAI_API_KEY)]
    /\ pc' = "done"
    /\ UNCHANGED <<tag_filter, page_number, selected_tag, products_page, first,
                   other>>
    /\ UNCHANGED shop
    /\ UNCHANGED <<settings, flags, catalog, search_query, query, context,
                   response, llm_calls, product_ids, via, ordered, raised, e,
                   products, search_type, warning>>

\* ------------------------------------------------------- the cart views
\* The answer of cart request op of session s.
Answer(op, s, rejected, exc) ==
    [NoCartResponse EXCEPT !.op = op, !.session = s, !.rejected = rejected,
                           !.raised = exc]

\* views.py:211-266  add_to_cart (POST)
AddToCart(s, id, qp, dp) ==
    /\ pc = "idle"
    /\ IF id \notin catalog
       THEN /\ cart_resp' = Answer("add_to_cart", s, FALSE, "Http404")
            /\ UNCHANGED carts
       ELSE IF qp.kind = "text" \/ dp.kind = "text"
       THEN /\ cart_resp' = Answer("add_to_cart", s, FALSE, "ValueError")
            /\ UNCHANGED carts
       ELSE LET r == add_to_cart(carts[s], id, IntOr(qp, 1), IntOr(dp, 1), stock[id])
            IN /\ carts' = [carts EXCEPT ![s] = r.cart]
               /\ cart_resp' = Answer("add_to_cart", s, r.rejected, "none")
    /\ UNCHANGED stock
    /\ UNCHANGED <<settings, flags, catalog, pc, locals, extras, other>>

\* views.py:268-286  remove_from_cart
RemoveFromCart(s, id) ==
    /\ pc = "idle"
    /\ LET r == remove_from_cart(carts[s], id)
       IN /\ carts' = [carts EXCEPT ![s] = r.cart]
          /\ cart_resp' = Answer("remove_from_cart", s, r.rejected, "none")
    /\ UNCHANGED stock
    /\ UNCHANGED <<settings, flags, catalog, pc, locals, extras, other>>

\* views.py:649-696  update_cart_quantity (POST)
UpdateCartQuantity(s, id, qp) ==
    /\ pc = "idle"
    /\ IF qp.kind = "text"
       THEN /\ cart_resp' = Answer("update_cart_quantity", s, FALSE, "ValueError")
            /\ UNCHANGED carts
       ELSE LET r == update_cart_quantity(carts[s], id, IntOr(qp, 1), catalog,
                                          stock[id])
            IN /\ carts' = [carts EXCEPT ![s] = r.cart]
               /\ cart_resp' = Answer("update_cart_quantity", s, r.rejected, "none")
    /\ UNCHANGED stock
    /\ UNCHANGED <<settings, flags, catalog, pc, locals, extras, other>>

\* views.py:698-750  update_cart_days
UpdateCartDays(s, id, dp) ==
    /\ pc = "idle"
    /\ LET r == update_cart_days(carts[s], id, dp, catalog)
       IN /\ carts' = [carts EXCEPT ![s] = r.cart]
          /\ cart_resp' = Answer("update_cart_days", s, r.rejected, "none")
    /\ UNCHANGED stock
    /\ UNCHANGED <<settings, flags, catalog, pc, locals, extras, other>>

\* views.py:154-209  cart_view
CartView(s) ==
    /\ pc = "idle"
    /\ LET cart == carts[s]
           items == shown_items(SetToSortedSeq(DOMAIN cart), cart, catalog)
       IN /\ cart_resp' = [Answer("cart_view", s, FALSE, "none") EXCEPT
                              !.items = items, !.total = sum_totals(items)]
          /\ IF DOMAIN valid_cart(cart, catalog) # DOMAIN cart
             THEN carts' = [carts EXCEPT ![s] = valid_cart(cart, catalog)]
             ELSE UNCHANGED carts
    /\ UNCHANGED stock
    /\ UNCHANGED <<settings, flags, catalog, pc, locals, extras, other>>

\* views.py:294-428  checkout: an empty cart is sent back; a POST with a valid
\* form saves the order and its items, confirmed at once for staff; any other
\* request shows the page
Checkout(s, method, valid, staff, rental_days, strict) ==
    /\ pc = "idle"
    /\ LET cart == carts[s]
           ids == SetToSortedSeq(DOMAIN cart)
       IN IF DOMAIN cart = {}
          THEN /\ cart_resp' = Answer("checkout", s, TRUE, "none")
               /\ UNCHANGED <<carts, stock>>
          ELSE IF method = "POST" /\ valid
          THEN LET r == create_items(ids, cart, catalog, stock, rental_days,
                                     staff, strict)
                   total == sum_totals(checkout_lines(ids, cart, catalog,
                                                      rental_days))
               IN /\ stock' = r.stock
                  /\ cart_resp' = [Answer("checkout", s, FALSE, r.raised) EXCEPT
                                     !.total = total,
                                     !.order_items = r.items,
                                     !.order_status = IF staff THEN "confirmed"
                                                      ELSE "new"]
                  /\ IF r.raised = "none"
                     THEN carts' = [carts EXCEPT ![s] = EmptyCart]
                     ELSE UNCHANGED carts
          ELSE LET items == checkout_lines(ids, cart, catalog, 1)
               IN /\ cart_resp' = [Answer("checkout", s, FALSE, "none") EXCEPT
                                     !.items = items, !.total = sum_totals(items)]
                  /\ UNCHANGED <<carts, stock>>
    /\ UNCHANGED <<settings, flags, catalog, pc, locals, extras, other>>

\* A product is deleted (admin) while the request runs or between requests.
DeleteProduct(id) ==
    /\ pc # "done"
    /\ id \in catalog
    /\ catalog' = catalog \ {id}
    /\ UNCHANGED shop
    /\ UNCHANGED <<settings, flags, pc, locals, extras, other>>

\* The caller has its answer; the next request starts with fresh locals.
Finish ==
    /\ pc = "done"
    /\ pc' = "idle"
    /\ entry' = "none"
    /\ search_query' = <<>>
    /\ query' = <<>>
    /\ context' = <<>>
    /\ response' = NoResponse
    /\ llm_calls' = 0
    /\ product_ids' = <<>>
    /\ via' = "none"
    /\ ordered' = <<>>
    /\ raised' = "none"
    /\ e' = "none"
    /\ products' = NoProducts
    /\ search_type' = "none"
    /\ warning' = FALSE
    /\ tag_filter' = ""
    /\ page_number' = PageAbsent
    /\ selected_tag' = 0
    /\ products_page' = NoPage
    /\ first' = NoFirst
    /\ status' = NoStatus
    /\ UNCHANGED shop
    /\ UNCHANGED <<settings, flags, catalog, other>>

Next ==
    \/ \E q \in SampleQueries : Call("smart_search", q)
    \/ \E q \in SampleQueries : Call("search_with_chatgpt", q)
    \/ \E q \in LiteralQueries : Call("fallback_search", q)
    \/ \E q \in SampleQueries : ProductListBegin(q, "", PageAbsent)
    \/ FallbackSearchCall
    \/ SmartSearchEntry
    \/ SwcPrecheck
    \/ SwcSnapshot
    \/ SwcLLM
    \/ SwcValidate
    \/ SwcFallbackInTry
    \/ SwcFallbackExcept
    \/ SmartSearchRefetch
    \/ ProductListSearchOk
    \/ ProductListExcept
    \/ ProductListRest
    \/ ProductListPaginate
    \/ SmartSearchStatus
    \/ \E id \in ProductIds : DeleteProduct(id)
    \/ Finish

Spec == Init /\ [][Next]_vars

\* ------------------------------------------------ product_list on its own
\* request.GET 'search', 'tag' and 'page' of the listing requests
ListQueries == { <<>>, <<" ">>, <<"c", "c", "c">> }
ListTags == {"", "1", "3", "9", "x"}
TextPage == [kind |-> "text", n |-> 0]
IntPage(n) == [kind |-> "int", n |-> n]
ListPageParams == {PageAbsent, IntPage(2)}

NextList ==
    \/ \E q \in ListQueries, t \in ListTags, p \in ListPageParams :
          ProductListBegin(q, t, p)
    \/ SmartSearchEntry
    \/ SwcPrecheck
    \/ SwcSnapshot
    \/ SwcLLM
    \/ SwcValidate
    \/ SwcFallbackInTry
    \/ SwcFallbackExcept
    \/ SmartSearchRefetch
    \/ ProductListSearchOk
    \/ ProductListExcept
    \/ ProductListRest
    \/ ProductListPaginate
    \/ \E id \in ProductIds : DeleteProduct(id)
    \/ Finish

SpecList == Init /\ [][NextList]_vars

\* -------------------------------------------------- pagination on its own
\* The listing of a catalog of up to MaxCatalogPage products, asked for by
\* page: no parameter, a text that is no integer, the integers from -1 up.
MaxCatalogPage == 61
MaxPageParam == 4
PageParams ==
    {PageAbsent, TextPage} \cup {IntPage(n) : n \in (0 - 1)..MaxPageParam}

InitPage ==
    /\ OPENAI_AVAILABLE \in BOOLEAN
    /\ OPENAI_API_KEY \in ApiKeys
    /\ api_available = init_api_available(OPENAI_AVAILABLE)
    /\ api_configured = init_api_configured(OPENAI_AVAILABLE, OPENAI_API_KEY)
    /\ catalog \in {1..n : n \in 0..MaxCatalogPage}
    /\ pc = "idle"
    /\ FreshLocals
    /\ FreshExtras
    /\ other = IdleRequest
    /\ FreshShop

NextPage ==
    \/ \E p \in PageParams : ProductListBegin(<<>>, "", p)
    \/ ProductListRest
    \/ ProductListPaginate
    \/ Finish

SpecPage == InitPage /\ [][NextPage]_vars

\* ----------------------------------------------- fallback_search, twice
NextTwice ==
    \/ \E q \in LiteralQueries : FallbackTwiceBegin(q)
    \/ FallbackSearchFirst
    \/ FallbackSearchCall
    \/ \E id \in ProductIds : DeleteProduct(id)
    \/ Finish

SpecTwice == Init /\ [][NextTwice]_vars

\* ------------------------------------------------- two requests at a time
\* The request that is running, as a record.
Current ==
    [pc |-> pc, entry |-> entry, search_query |-> search_query, query |-> query,
     context |-> context, response |-> response, llm_calls |-> llm_calls,
     product_ids |-> product_ids, via |-> via, ordered |-> ordered,
     raised |-> raised, e |-> e, products |-> products,
     search_type |-> search_type, warning |-> warning,
     tag_filter |-> tag_filter, page_number |-> page_number,
     selected_tag |-> selected_tag, products_page |-> products_page,
     first |-> first, status |-> status]

\* The worker is given to the other request: each request keeps its own
\* locals, the settings, the flags of the service and the catalog are shared.
Switch ==
    /\ other' = Current
    /\ pc' = other.pc
    /\ entry' = other.entry
    /\ search_query' = other.search_query
    /\ query' = other.query
    /\ context' = other.context
    /\ response' = other.response
    /\ llm_calls' = other.llm_calls
    /\ product_ids' = other.product_ids
    /\ via' = other.via
    /\ ordered' = other.ordered
    /\ raised' = other.raised
    /\ e' = other.e
    /\ products' = other.products
    /\ search_type' = other.search_type
    /\ warning' = other.warning
    /\ tag_filter' = other.tag_filter
    /\ page_number' = other.page_number
    /\ selected_tag' = other.selected_tag
    /\ products_page' = other.products_page
    /\ first' = other.first
    /\ status' = other.status
    /\ UNCHANGED shop
    /\ UNCHANGED <<settings, flags, catalog>>

ConcQueries == { <<"c", "c", "c">>, <<"A", "b", "b", " ", " ", "a", "b", "c">> }
ConcResponses ==
    { [kind |-> "timeout", ids |-> <<>>],
      [kind |-> "not_json", ids |-> <<>>],
      [kind |-> "obj_list", ids |-> <<2, 1>>],
      [kind |-> "obj_list", ids |-> <<3>>] }

NextConc ==
    \/ \E q \in ConcQueries : Call("smart_search", q)
    \/ \E q \in ConcQueries : ProductListBegin(q, "", PageAbsent)
    \/ SmartSearchEntry
    \/ SwcPrecheck
    \/ SwcSnapshot
    \/ SwcLLMFrom(ConcResponses)
    \/ SwcValidate
    \/ SwcFallbackInTry
    \/ SwcFallbackExcept
    \/ SmartSearchRefetch
    \/ ProductListSearchOk
    \/ ProductListExcept
    \/ ProductListRest
    \/ ProductListPaginate
    \/ Switch
    \/ Finish

SpecConc == Init /\ [][NextConc]_vars

\* ------------------------------------------------------ one session's cart
AddQuantities == {IntParam(n) : n \in 0..(MaxStock + 1)}
AddDays == {NoParam, TextParam, IntParam(366)}
UpdateQuantities == {IntParam(n) : n \in (0 - 1)..(MaxStock + 1)}
UpdateDays == {NoParam, TextParam, IntParam(0), IntParam(365), IntParam(366)}
RentalDays == {1, 2}

\* The cart views read neither the settings nor the flags of the service:
\* one start of the process stands for all.
InitCart ==
    /\ OPENAI_AVAILABLE = TRUE
    /\ OPENAI_API_KEY = KeyText(<<"k">>)
    /\ api_available = init_api_available(OPENAI_AVAILABLE)
    /\ api_configured = init_api_configured(OPENAI_AVAILABLE, OPENAI_API_KEY)
    /\ catalog = ProductIds
    /\ pc = "idle"
    /\ FreshLocals
    /\ FreshExtras
    /\ other = IdleRequest
    /\ FreshShop

NextCart ==
    \/ \E id \in ProductIds, qp \in AddQuantities, dp \in AddDays :
          AddToCart(1, id, qp, dp)
    \/ \E id \in ProductIds : RemoveFromCart(1, id)
    \/ \E id \in ProductIds, qp \in UpdateQuantities :
          UpdateCartQuantity(1, id, qp)
    \/ \E id \in ProductIds, dp \in UpdateDays : UpdateCartDays(1, id, dp)
    \/ CartView(1)
    \/ \E method \in {"GET", "POST"}, valid \in BOOLEAN, rental_days \in RentalDays :
          Checkout(1, method, valid, FALSE, rental_days, FALSE)
    \/ \E id \in ProductIds : DeleteProduct(id)

SpecCart == InitCart /\ [][NextCart]_vars

\* ------------------------------------------------ several sessions, stock
\* Every session fills its cart within the stock and checks out; a staff
\* session's order is confirmed at once.
NextStock ==
    \/ \E s \in Sessions, id \in ProductIds, n \in 1..MaxStock :
          AddToCart(s, id, IntParam(n), NoParam)
    \/ \E s \in Sessions, staff, strict \in BOOLEAN :
          Checkout(s, "POST", TRUE, staff, 1, strict)

SpecStock == InitCart /\ [][NextStock]_vars

\* ================================================================= claims
Direct(en) == entry = en /\ pc = "done"

\* The outcome of fallback_search(query) on the catalog of this state: what a
\* returned value must be; the only exception is the store's own.
SameAsFallback ==
    /\ raised \in {"none", "DatabaseError"}
    /\ raised = "none" => product_ids = fallback_search(query, catalog)

\* C1: when the service is unavailable or unconfigured, search_with_chatgpt
\* returns exactly what fallback_search returns for the same query and
\* catalog, and no request is sent to the LLM endpoint.
C1_UnavailableIsFallback ==
    (~api_available \/ ~api_configured) =>
        /\ llm_calls = 0
        /\ response = NoResponse
        /\ Direct("search_with_chatgpt") => SameAsFallback /\ via = "return_99"

C1_Witness ==
    /\ Direct("search_with_chatgpt")
    /\ api_available /\ ~api_configured
    /\ raised = "none"
    /\ product_ids # <<>>

\* Answers of the endpoint that are a failure of the LLM step: the request
\* raises, there is no text, the text is not JSON, or the JSON is not an object
\* whose relevant_products can be tested against the existing ids.
LLMStepFailed ==
    response.kind \in FailureKinds \cup {"obj_null", "obj_nested"}

\* C2: with the service ready, every failure of the LLM step makes
\* search_with_chatgpt return exactly fallback_search(query); the failure
\* itself never reaches the caller.
C2_LLMFailureDegrades ==
    (Direct("search_with_chatgpt") /\ LLMStepFailed) =>
        /\ SameAsFallback
        /\ via \in {"return_140", "return_144"}

C2_Witness ==
    /\ Direct("search_with_chatgpt")
    /\ response.kind = "not_json"
    /\ raised = "none"
    /\ product_ids # <<>>

\* The answer parsed as JSON and names no product that exists.
NoExistingIdAnswered ==
    /\ response.kind \in {"obj_missing", "obj_strings", "obj_list"}
    /\ Range(response.ids) \cap catalog = {}

\* C3: an answer that parses as JSON but names no existing product (only
\* nonexistent ids, an empty list, no key) makes search_with_chatgpt return
\* fallback_search(query); the semantic path never returns an empty list.
C3_NoValidIdsFallsBack ==
    (Direct("search_with_chatgpt") /\ NoExistingIdAnswered) =>
        /\ SameAsFallback
        /\ via \in {"return_134", "return_144"}

C3_Witness ==
    /\ Direct("search_with_chatgpt")
    /\ response.kind = "obj_list"
    /\ response.ids # <<>>
    /\ Range(response.ids) \cap catalog = {}
    /\ via = "return_134"
    /\ product_ids # <<>>

\* C4: every product smart_search returns exists in the catalog at the
\* re-fetch, whatever the LLM answered and whichever products were deleted
\* during the search; an id that is missing is dropped and raises nothing.
C4_ResultExists ==
    Direct("smart_search") =>
        /\ raised \in {"none", "DatabaseError"}
        /\ Range(ordered) \subseteq catalog

C4_Witness ==
    /\ Direct("smart_search")
    /\ raised = "none"
    /\ via = "return_136"
    /\ (MaxProducts + 1) \in Range(response.ids)
    /\ \E pid \in Range(product_ids) : pid \notin catalog
    /\ ordered # <<>>

\* C5: when the LLM answer names at least one existing product, smart_search
\* returns the answer's list restricted to the existing ids, position by
\* position in the order the LLM gave (the store answering the existence
\* query and the re-fetch: via is not the "except Exception" return, and
\* nothing is raised).
C5_OrderPreserved ==
    (/\ Direct("smart_search")
     /\ raised = "none"
     /\ via # "return_144"
     /\ response.kind = "obj_list"
     /\ Range(response.ids) \cap catalog # {}) =>
        /\ Len(ordered) = Cardinality({i \in 1..Len(response.ids) :
                                          response.ids[i] \in catalog})
        /\ \A i \in 1..Len(ordered) :
              \E j \in 1..Len(response.ids) :
                 /\ response.ids[j] = ordered[i]
                 /\ response.ids[j] \in catalog
                 /\ i = Cardinality({k \in 1..j : response.ids[k] \in catalog})

C5_Witness ==
    /\ Direct("smart_search")
    /\ raised = "none"
    /\ Len(ordered) >= 2
    /\ ordered[1] > ordered[2]
    /\ (MaxProducts + 1) \in Range(response.ids)

\* q[i..j] is a whitespace-separated term of q that is longer than 2.
LongTermAt(q, i, j) ==
    /\ j - i + 1 > 2
    /\ \A k \in i..j : ~IsSpace(q[k])
    /\ i = 1 \/ IsSpace(q[i - 1])
    /\ j = Len(q) \/ IsSpace(q[j + 1])

\* The term q[i..j] occurs in the column, case ignored.
ColumnHasTerm(field, q, i, j) ==
    /\ ~field.null
    /\ \E k \in 0..(Len(field.s) - (j - i + 1)) :
          \A m \in 0..(j - i) : LowerChar(field.s[k + 1 + m]) = LowerChar(q[i + m])

LiteralMatch(q, id) ==
    \E i \in 1..Len(q) : \E j \in i..Len(q) :
        /\ LongTermAt(q, i, j)
        /\ \/ ColumnHasTerm(ProductRow(id).name, q, i, j)
           \/ ColumnHasTerm(ProductRow(id).description, q, i, j)
           \/ ColumnHasTerm(ProductRow(id).article, q, i, j)

ABbCcc == <<"a", " ", "b", "b", " ", "c", "c", "c">>
Ccc == <<"c", "c", "c">>

\* C6: fallback_search returns exactly the ids of the products for which some
\* whitespace-separated term longer than 2 occurs, case ignored, in the name,
\* the description or the article, each id once, in store order; shorter
\* terms add nothing, so "a bb ccc" gives what "ccc" gives.
C6_LiteralMatcher ==
    (Direct("fallback_search") /\ raised = "none") =>
        /\ Range(product_ids) = {id \in catalog : LiteralMatch(query, id)}
        /\ \A i \in 1..Len(product_ids) : \A j \in 1..Len(product_ids) :
              i < j => product_ids[i] < product_ids[j]
        /\ query = ABbCcc => product_ids = fallback_search(Ccc, catalog)

C6_Witness ==
    /\ Direct("fallback_search")
    /\ raised = "none"
    /\ query = ABbCcc
    /\ product_ids # <<>>
    /\ \E id \in catalog : id \notin Range(product_ids)

\* q has three non-whitespace characters in a row, that is a term longer than 2.
HasLongTerm(q) ==
    \E i \in 1..(Len(q) - 2) : \A k \in i..(i + 2) : ~IsSpace(q[k])

\* C7: a query without a term longer than 2 (empty, blank, short terms only)
\* makes fallback_search return the empty sequence for every catalog.
C7_NoTermsNoResults ==
    (Direct("fallback_search") /\ raised = "none" /\ ~HasLongTerm(query)) =>
        product_ids = <<>>

C7_Witness ==
    /\ Direct("fallback_search")
    /\ raised = "none"
    /\ query = <<"a", "b">>
    /\ 1 \in catalog
    /\ product_ids = <<>>

\* C8: with the service ready and an empty catalog, search_with_chatgpt
\* returns the empty sequence and sends no request to the LLM endpoint.
C8_EmptyCatalogSkipsLLM ==
    context = << <<>> >> =>
        /\ llm_calls = 0
        /\ response = NoResponse
        /\ Direct("search_with_chatgpt") =>
              /\ catalog = {}
              /\ raised = "none"
              /\ product_ids = <<>>
              /\ via = "return_104"

C8_Witness ==
    /\ Direct("search_with_chatgpt")
    /\ api_available /\ api_configured
    /\ catalog = {}
    /\ context = << <<>> >>
    /\ HasLongTerm(query)

\* C9: one search sends at most one request to the LLM endpoint: once a
\* request has ended, in failure or not, the search is never again at the
\* place that sends one.
C9_AtMostOneLLMCall ==
    /\ llm_calls <= 1
    /\ pc = "swc_llm" => llm_calls = 0
    /\ response.kind # "none" => llm_calls = 1

C9_Witness ==
    /\ pc = "done"
    /\ response.kind = "timeout"
    /\ llm_calls = 1
    /\ via = "return_144"
    /\ raised = "none"

\* C10: when smart_search raises in product_list, the handler completes the
\* request with the expanded literal search: mode 'fallback', the warning
\* recorded, no exception for the caller.
C10_OrchestratorCatches ==
    (Direct("product_list") /\ e # "none") =>
        /\ raised = "none"
        /\ search_type = "fallback"
        /\ warning

\* ------------------------------------------------------------ product_list
\* search_with_chatgpt returned through one of its fallback statements.
ServiceDegraded ==
    via \in {"return_99", "return_134", "return_140", "return_144"}

\* product_list is past the try block of lines 59-70 without entering the
\* handler of line 72.
SmartSearchReturned ==
    /\ entry = "product_list"
    /\ search_query # <<>>
    /\ pc \in {"pl_rest", "pl_paginate", "done"}
    /\ e = "none"

\* C11: a request of product_list in which the service degraded internally
\* and smart_search returned normally records no warning and has the mode
\* 'smart' or 'smart_tag'; a warning or a 'fallback' mode is there only when
\* the handler of the orchestrator has been entered.
C11_WarningOnlyFromOrchestrator ==
    /\ (SmartSearchReturned /\ ServiceDegraded) =>
          /\ ~warning
          /\ search_type \in {"smart", "smart_tag"}
    /\ (warning \/ search_type \in {"fallback", "fallback_tag"}) => e # "none"

C11_Witness ==
    /\ Direct("product_list")
    /\ raised = "none"
    /\ via = "return_140"
    /\ ordered = <<>>
    /\ ~warning
    /\ search_type = "smart"

\* C12: a request whose query is empty or blank and that has no tag filter
\* shows the full catalog, newest first, in mode 'all', and no step of the
\* semantic service has run.
C12_BlankQueryShowsAll ==
    (entry = "product_list" /\ search_query = <<>> /\ tag_filter = "") =>
        /\ llm_calls = 0
        /\ via = "none"
        /\ context = <<>>
        /\ product_ids = <<>>
        /\ (pc = "done" /\ raised = "none") =>
              /\ products.ids = Reverse(Product_objects_all(catalog))
              /\ search_type = "all"

C12_Witness ==
    /\ Direct("product_list")
    /\ raised = "none"
    /\ search_query = <<>>
    /\ tag_filter = ""
    /\ Len(products.ids) >= 2
    /\ search_type = "all"

\* The tag parameter names a row of the Tag table.
TagExists(t) == t \in {"1", "2", "3", "4"}

SearchModes == {"all", "smart", "fallback", "tag", "smart_tag", "fallback_tag"}

\* C13: the mode product_list reports is one of all, smart, fallback, tag,
\* smart_tag, fallback_tag; it is 'tag' exactly when a tag that exists is
\* given with a blank query, and the mode of the search followed by '_tag'
\* exactly when a tag that exists is given with a non-blank query.
C13_SearchModes ==
    (Direct("product_list") /\ raised = "none") =>
        /\ search_type \in SearchModes
        /\ search_type = "tag" <=> (TagExists(tag_filter) /\ search_query = <<>>)
        /\ search_type \in {"smart_tag", "fallback_tag"}
              <=> (TagExists(tag_filter) /\ search_query # <<>>)
        /\ search_type = "smart_tag" => ~warning
        /\ search_type = "fallback_tag" => warning

C13_Witness ==
    /\ Direct("product_list")
    /\ raised = "none"
    /\ tag_filter = "3"
    /\ via = "return_136"
    /\ search_type = "smart_tag"

\* The k-th ancestor of tag u (0 once the root is passed).
RECURSIVE AncestorAt(_, _)
AncestorAt(u, k) ==
    IF k = 0 \/ u = 0 THEN u ELSE AncestorAt(TagParent[u], k - 1)

\* Tag u is t or a transitive descendant of t.
InSubtree(u, t) == \E k \in 0..Len(TagParent) : AncestorAt(u, k) = t

\* Product p has a row of the product-tag relation in the subtree of tag t.
Tagged(p, t) ==
    \E u \in ProductTagTemplates[((p - 1) % Len(ProductTagTemplates)) + 1] :
        InSubtree(u, t)

\* C14: with a non-blank query and a tag T that exists, the sequence shown is
\* the result of the query restricted to the products that carry a tag of
\* the subtree of T: nothing else is in it, every such product still in the
\* catalog is in it, and the products kept are in the order of the result.
C14_TagRestrictsQueryResult ==
    (Direct("product_list") /\ raised = "none" /\ search_query # <<>>
        /\ TagExists(tag_filter)) =>
        /\ \A p \in Range(products.ids) :
              p \in Range(ordered) /\ Tagged(p, TagParamInt(tag_filter))
        /\ \A p \in Range(ordered) :
              (p \in catalog /\ Tagged(p, TagParamInt(tag_filter)))
                  => p \in Range(products.ids)
        /\ products.ids =
              SelectSeq(ordered, LAMBDA p : p \in Range(products.ids))

C14_Witness ==
    /\ Direct("product_list")
    /\ raised = "none"
    /\ tag_filter = "1"
    /\ ordered = <<2, 1>>
    /\ products.ids = <<2, 1>>
    /\ products_page.object_list = <<2, 1>>

\* C15: with a blank query and a tag T that exists, the sequence shown has
\* each product of the catalog that carries a tag of the subtree of T exactly
\* once, no other product, and is ordered newest first.
C15_TagListing ==
    (Direct("product_list") /\ raised = "none" /\ search_query = <<>>
        /\ TagExists(tag_filter)) =>
        /\ Range(products.ids) =
              {p \in catalog : Tagged(p, TagParamInt(tag_filter))}
        /\ \A i, j \in 1..Len(products.ids) :
              i < j => products.ids[i] > products.ids[j]

C15_Witness ==
    /\ Direct("product_list")
    /\ raised = "none"
    /\ search_query = <<>>
    /\ tag_filter = "1"
    /\ search_type = "tag"
    /\ products.ids = <<2, 1>>

\* The number of pages of 30 a sequence of n elements has (one when n = 0).
PagesOf(n) == CHOOSE np \in 1..(n + 1) :
    /\ 30 * np >= n
    /\ np > 1 => 30 * (np - 1) < n

\* C16: the page shown holds the elements at positions 30(p-1)+1 .. 30p of
\* the final sequence, in order, the last page holding what is left; p is the
\* page asked for when it is in range, 1 when no page or no integer is given,
\* and the last page when the number is out of range.
C16_Pagination ==
    (Direct("product_list") /\ raised = "none") =>
        LET seq == products.ids
            p == products_page.number
            last == PagesOf(Len(seq))
            upto == IF 30 * p <= Len(seq) THEN 30 * p ELSE Len(seq)
        IN /\ p \in 1..last
           /\ products_page.object_list =
                 [i \in 1..(upto - 30 * (p - 1)) |-> seq[30 * (p - 1) + i]]
           /\ p < last => Len(products_page.object_list) = 30
           /\ page_number.kind \in {"absent", "text"} => p = 1
           /\ (page_number.kind = "int" /\ page_number.n \in 1..last)
                 => p = page_number.n
           /\ (page_number.kind = "int" /\ page_number.n \notin 1..last)
                 => p = last

C16_Witness ==
    /\ Direct("product_list")
    /\ raised = "none"
    /\ Len(products.ids) = 61
    /\ page_number = IntPage(4)
    /\ products_page.number = 3
    /\ products_page.object_list = <<1>>

ExistingOnly(ids) == SelectSeq(ids, LAMBDA i : i \in catalog)

\* What a search with query q returns when it runs alone on the catalog and
\* the endpoint answered r (no answer when it was not asked): the ids of the
\* answer that exist when there are any and the store did not fail, the
\* result of the literal matcher otherwise.
SoloResults(q, r) ==
    IF ~api_available \/ ~api_configured
    THEN {fallback_search(q, catalog)}
    ELSE IF catalog = {}
    THEN {<<>>}
    ELSE IF r.kind = "obj_list" /\ ExistingOnly(r.ids) # <<>>
    THEN {ExistingOnly(r.ids), fallback_search(q, catalog)}
    ELSE {fallback_search(q, catalog)}

\* C18: a step of a search writes neither the settings, the flags nor the
\* catalog, and leaves the locals of the other request alone; and whatever
\* the interleaving with another search, smart_search and product_list on a
\* fixed catalog return for a query and an answer of the endpoint what they
\* return alone.
C18_ConcurrentSearchesIndependent ==
    /\ []((pc = "done" /\ raised = "none" /\ entry = "smart_search")
            => /\ ordered \in SoloResults(query, response)
               /\ via = "return_136" => ordered = ExistingOnly(response.ids))
    /\ []((pc = "done" /\ raised = "none" /\ entry = "product_list")
            => /\ products.ids \in SoloResults(search_query, response)
               /\ products_page.object_list = products.ids
               /\ via = "return_136" => products.ids = ExistingOnly(response.ids))
    /\ [][UNCHANGED <<settings, flags, catalog>>]_vars
    /\ [][other' = other \/ other' = Current]_vars

C18_Witness ==
    /\ pc = "done"
    /\ raised = "none"
    /\ entry = "product_list"
    /\ products.ids = <<2, 1>>
    /\ other.pc = "done"
    /\ other.entry = "smart_search"
    /\ other.query # search_query
    /\ other.via = "return_140"
    /\ other.ordered = <<2>>

\* ------------------------------------------------------- flags and status
\* C19: after construction api_available is true iff the client library was
\* loaded, and api_configured is true iff the settings hold a credential that
\* is not empty (nor blank).
C19_FlagsReflectStartup ==
    /\ api_available <=> OPENAI_AVAILABLE
    /\ api_configured <=> KeyUsable(OPENAI_API_KEY)

\* C20: with no credential set (the setting absent or empty) the status probe
\* reports available = false and configured = false, whether or not the
\* client library is installed.
C20_StatusWithoutCredential ==
    (Direct("smart_search_status") /\ ~status_configured(OPENAI_API_KEY)) =>
        /\ status.reported
        /\ ~status.available
        /\ ~status.configured

C20_Witness ==
    /\ Direct("smart_search_status")
    /\ OPENAI_AVAILABLE
    /\ api_available
    /\ OPENAI_API_KEY = KeyUnset
    /\ status = [reported |-> TRUE, available |-> FALSE, configured |-> FALSE]

\* ---------------------------------------------------------------- the cart
\* A step of a cart view: it writes its answer and leaves the catalog alone.
CartStep(op) == cart_resp'.op = op /\ catalog' = catalog

\* The products of the lines of an answer.
ProductsOf(items) == {items[i].product : i \in 1..Len(items)}

\* The price of the entries of cart whose product is in S, for the days of
\* the entry, or for d days when d > 0.
RECURSIVE PriceOf(_, _, _)
PriceOf(S, cart, d) ==
    IF S = {} THEN 0
    ELSE LET k == CHOOSE x \in S : TRUE
         IN daily_price(k) * cart[k].quantity * (IF d > 0 THEN d ELSE cart[k].days)
            + PriceOf(S \ {k}, cart, d)

\* C21: a cart entry whose product is no longer in the catalog is skipped:
\* cart_view and checkout end without an exception; the items shown, the
\* total and the order items are those of the entries whose product exists;
\* and cart_view takes exactly the entries without product out of the cart.
C21_StaleEntriesSkipped ==
    [][LET s == cart_resp'.session
           cart == carts[s]
           live == DOMAIN cart \cap catalog
       IN /\ CartStep("cart_view") =>
                /\ cart_resp'.raised = "none"
                /\ ProductsOf(cart_resp'.items) = live
                /\ Len(cart_resp'.items) = Cardinality(live)
                /\ cart_resp'.total = PriceOf(live, cart, 0)
                /\ DOMAIN carts'[s] = live
                /\ \A k \in live : carts'[s][k] = cart[k]
          /\ (CartStep("checkout") /\ ~cart_resp'.rejected) =>
                /\ cart_resp'.raised = "none"
                /\ IF cart_resp'.order_status = "none"
                   THEN /\ ProductsOf(cart_resp'.items) = live
                        /\ Len(cart_resp'.items) = Cardinality(live)
                        /\ cart_resp'.total = PriceOf(live, cart, 1)
                   ELSE /\ ProductsOf(cart_resp'.order_items) = live
                        /\ Len(cart_resp'.order_items) = Cardinality(live)
                        /\ \E d \in RentalDays :
                              cart_resp'.total = PriceOf(live, cart, d)
      ]_vars

C21_Witness ==
    /\ cart_resp.op = "checkout"
    /\ cart_resp.raised = "none"
    /\ cart_resp.order_status = "none"
    /\ DOMAIN carts[1] = {1, 2}
    /\ catalog = {1}
    /\ ProductsOf(cart_resp.items) = {1}

\* C22: every entry of a session cart whose product still has the stock it
\* started with holds a quantity q with 1 <= q <= available_quantity.
C22_CartQuantityInRange ==
    \A s \in Sessions : \A k \in DOMAIN carts[s] :
        stock[k] = MaxStock =>
            /\ carts[s][k].quantity >= 1
            /\ carts[s][k].quantity <= stock[k]

\* C23: every entry of a session cart holds a number of rental days between
\* 1 and 365.
C23_CartDaysInRange ==
    \A s \in Sessions : \A k \in DOMAIN carts[s] :
        /\ carts[s][k].days >= 1
        /\ carts[s][k].days <= 365

\* C24: the available_quantity of every product is >= 0, whatever add_to_cart
\* and checkout requests the sessions have issued.
C24_StockNeverNegative ==
    \A id \in ProductIds : stock[id] >= 0

\* The quantity cart holds of product id.
Held(cart, id) == IF id \in DOMAIN cart THEN cart[id].quantity ELSE 0

\* A day count update_cart_days must refuse.
BadDays(dp) == dp.kind \in {"absent", "text"} \/ dp.n < 1 \/ dp.n > 365

\* C25: a cart request that is refused leaves the session cart as it was:
\* add_to_cart and update_cart_quantity asking for more than the stock,
\* update_cart_days with a day count that is missing, no integer or outside
\* 1..365, and update_cart_quantity, update_cart_days and remove_from_cart for
\* a product that is not in the cart.  Each of these requests is refused, and
\* the step of a refused request does not change the carts.
C25_RejectedLeavesCart ==
    /\ [](\A s \in Sessions, id \in ProductIds :
            LET cart == carts[s]
            IN /\ \A qp \in AddQuantities :
                    (qp.n > stock[id] \/ Held(cart, id) + qp.n > stock[id]) =>
                        add_to_cart(cart, id, qp.n, 1, stock[id])
                            = [rejected |-> TRUE, cart |-> cart]
               /\ \A qp \in UpdateQuantities :
                    (id \notin DOMAIN cart \/ qp.n > stock[id]) =>
                        update_cart_quantity(cart, id, qp.n, catalog, stock[id])
                            = [rejected |-> TRUE, cart |-> cart]
               /\ \A dp \in UpdateDays :
                    (id \notin DOMAIN cart \/ BadDays(dp)) =>
                        update_cart_days(cart, id, dp, catalog)
                            = [rejected |-> TRUE, cart |-> cart]
               /\ id \notin DOMAIN cart =>
                    remove_from_cart(cart, id) = [rejected |-> TRUE, cart |-> cart])
    /\ [][(cart_resp'.rejected /\ catalog' = catalog) => carts' = carts]_vars

C25_Witness ==
    /\ cart_resp.op = "update_cart_quantity"
    /\ cart_resp.rejected
    /\ cart_resp.raised = "none"
    /\ catalog = ProductIds
    /\ DOMAIN carts[1] = ProductIds
    /\ \A k \in ProductIds : carts[1][k] = [quantity |-> MaxStock, days |-> 365]

\* ------------------------------------------------- results, modes, status
\* C26: the list smart_search returns holds each product at most once,
\* whatever the answer of the endpoint.
C26_NoDuplicateProducts ==
    (Direct("smart_search") /\ raised = "none") =>
        \A i, j \in 1..Len(ordered) : i # j => ordered[i] # ordered[j]

\* C27: whenever product_list reports the mode 'all', the sequence it
\* paginates is the full catalog, newest first.
C27_ModeAllIsFullCatalog ==
    (Direct("product_list") /\ raised = "none" /\ search_type = "all") =>
        products.ids = Reverse(Product_objects_all(catalog))

\* C28: the status probe reports configured = true iff the service's
\* api_configured is true, and available = true iff the service would take
\* the path of the endpoint (api_available and api_configured).
C28_ProbeAgreesWithService ==
    Direct("smart_search_status") =>
        /\ status.configured <=> api_configured
        /\ status.available <=> (api_available /\ api_configured)

====
